---- MODULE Spec2Model ----
(***************************************************************************)
(* Storage backends of the daemon (daemon/storage.go): the driver registry *)
(* and its factory, and the OverlayFsStorage and RawBlockStorage           *)
(* implementations of the Storage interface.                               *)
(*                                                                         *)
(* A goroutine of the daemon calls one method at a time.  A method that    *)
(* calls a helper of another package (the overlay mount helper, the raw    *)
(* block image helper, the copy helper, a system call) is one step for the *)
(* call and one step for each helper that returns: between the two the     *)
(* goroutine is inside the helper, which may take arbitrarily long.  Every *)
(* helper can succeed or fail, whatever the state.                         *)
(*                                                                         *)
(* Strings are TLA+ strings and \o is Go's string concatenation.  The      *)
(* arguments src, target, perm, uid and gid of InjectFile are only handed  *)
(* on to the helpers and are left out.                                     *)
(***************************************************************************)
EXTENDS Naturals, Sequences, FiniteSets, TLC

VARIABLES
    driver,      \* sysinfo.Driver, the storage driver the host reports
    selected,    \* whether StorageFactory has been called
    backend,     \* the Storage that StorageFactory returned (NoBackend: nil)
    factoryErr,  \* the error that StorageFactory returned ("" is nil)
    ctorCalls,   \* how many times a factory of StorageDrivers has been invoked
    mounts,      \* host mount table: the number of mounts stacked on each mount point
    volumesDir,  \* whether <rawblock root>/volumes exists
    storage,     \* host paths of the volume directories and block images created
    volumes,     \* the volume specs the caller holds after a successful CreateVolume
    pc,          \* per goroutine: "idle", or the helper it is inside
    op,          \* per goroutine: the method it called last and its arguments
    ret,         \* per goroutine: what that method returned (done), or its locals so far
    trip         \* the run of calls of goroutine Main on one container that is in
                 \* progress: a PrepareContainer, then InjectFile or
                 \* CleanupContainer calls

vars == <<driver, selected, backend, factoryErr, ctorCalls, mounts, volumesDir,
          storage, volumes, pc, op, ret, trip>>

----------------------------------------------------------------------------
(* Bounds and inputs *)

\* The deepest stack of mounts on one mount point that the model follows.
MaxMounts == 2

Threads == {"t1", "t2"}

\* The goroutine of the daemon with one caller, whose calls trip follows.
Main == "t1"
Ids == {"c1", "c2"}
Dirs == {"/vm/share", "/tmp/inject"}
PodIds == {"p", "p-q"}
VolNames == {"v", "q-v"}
Drivers == {"overlay", "rawblock", "aufs", "devicemapper", ""}

\* utils.HYPER_ROOT, the storage root of the daemon.
HYPER_ROOT == "/var/lib/hyper"

----------------------------------------------------------------------------
(* Paths *)

RECURSIVE JoinFrom(_, _)
JoinFrom(elems, i) ==
    IF i > Len(elems) THEN ""
    ELSE LET rest == JoinFrom(elems, i + 1)
         IN  IF elems[i] = "" THEN rest
             ELSE IF rest = "" THEN elems[i]
             ELSE elems[i] \o "/" \o rest

\* filepath.Join: the non-empty elements joined by "/".  The result is also
\* cleaned; none of the elements used here holds ".", ".." or a doubled or
\* trailing "/", so cleaning changes nothing.
Join(elems) == JoinFrom(elems, 1)

\* The mount point the overlay mount helper mounts a container on.
OverlayMountPoint(sharedDir, containerId) == Join(<<sharedDir, containerId, "rootfs">>)

\* The mount point the block image helper attaches an image on.
ImageMountPoint(sharedDir, containerId) == Join(<<sharedDir, containerId, "rootfs">>)

MountPoints == {Join(<<d, i, "rootfs">>) : d \in Dirs, i \in Ids}

----------------------------------------------------------------------------
(* Data *)

NoBackend == [kind |-> "nil", rootPath |-> ""]

NoSpec == [Name |-> "", Source |-> "", Format |-> "", Fstype |-> ""]

\* A UserVolume as the caller first passes it: only its Name is set.
FreshSpec(name) == [Name |-> name, Source |-> "", Format |-> "", Fstype |-> ""]

NoOp == [name |-> "none", id |-> "", dir |-> "", ro |-> FALSE, podId |-> "",
         spec |-> NoSpec, m0 |-> 0]

\* vol is <<>> for a nil descriptor and <<d>> for a pointer to d.  failed holds
\* the errors of the helpers that failed during the call.
BlankRet == [done |-> FALSE, err |-> "", vol |-> <<>>, spec |-> NoSpec, failed |-> {}]

NoTrip == [stage |-> "none", id |-> "", path |-> "", fresh |-> FALSE, ok |-> FALSE]

----------------------------------------------------------------------------
(* Helpers of other packages: each is the set of its possible outcomes *)

MountError == "error creating overlay mount"
CopyError == "inject: copy failed"
GetImageError == "rawblock: get image failed"
PutImageError == "rawblock: put image failed"
CreateBlockError == "rawblock: create block failed"
CreateVFSError == "vfs: create volume failed"
MkdirError == "mkdir: permission denied"

\* overlay.MountContainerToSharedDir: mounts the container on its mount point
\* below sharedDir, on top of whatever is mounted there, or fails.
MountContainerToSharedDir(m, mountId, sharedDir) ==
    LET p == OverlayMountPoint(sharedDir, mountId)
    IN  {[err |-> MountError, mounts |-> m]}
        \cup (IF m[p] < MaxMounts
              THEN {[err |-> "", mounts |-> [m EXCEPT ![p] = @ + 1]]}
              ELSE {})

\* syscall.Unmount(path, 0): removes the topmost mount of path; fails with
\* EINVAL when path is no mount point, and may fail (EBUSY) when it is.
Unmount(m, path) ==
    IF path \notin DOMAIN m \/ m[path] = 0
    THEN {[err |-> "EINVAL", mounts |-> m]}
    ELSE {[err |-> "", mounts |-> [m EXCEPT ![path] = @ - 1]],
          [err |-> "EBUSY", mounts |-> m]}

\* rawblock.GetImage: attaches the container's block image and mounts it on
\* its mount point below sharedDir, or fails.
GetImage(m, sharedDir, containerId) ==
    LET p == ImageMountPoint(sharedDir, containerId)
    IN  {[err |-> GetImageError, mounts |-> m]}
        \cup (IF m[p] < MaxMounts
              THEN {[err |-> "", mounts |-> [m EXCEPT ![p] = @ + 1]]}
              ELSE {})

\* rawblock.PutImage: unmounts and detaches what GetImage attached, or fails.
PutImage(m, sharedDir, containerId) ==
    LET p == ImageMountPoint(sharedDir, containerId)
    IN  {[err |-> PutImageError, mounts |-> m]}
        \cup (IF m[p] > 0
              THEN {[err |-> "", mounts |-> [m EXCEPT ![p] = @ - 1]]}
              ELSE {})

\* storage.FsInjectFile: copies into the mounted tree, or fails.
FsInjectFile == {"", CopyError}

\* storage.CreateVFSVolume: creates the directory of the volume of a pod.
CreateVFSVolume(podId, name) ==
    {[err |-> "", volName |-> Join(<<HYPER_ROOT, "vfs", podId, name>>)],
     [err |-> CreateVFSError, volName |-> ""]}

\* rawblock.CreateBlock: creates and formats the image, or fails.
CreateBlock == {"", CreateBlockError}

\* os.MkdirAll: creates the directory if it is missing, or fails.
MkdirAll == {"", MkdirError}

----------------------------------------------------------------------------
(* The registry and the factory *)

\* A Type() that does not return the name the driver is registered under.
OverlayTypeUnregistered == "overlayfs"

OverlayType == "overlay"

RawBlockType == "rawblock"

Type(b) == IF b.kind = "OverlayFsStorage" THEN OverlayType
           ELSE IF b.kind = "RawBlockStorage" THEN RawBlockType
           ELSE ""

RootPath(b) == b.rootPath

OverlayFsFactory ==
    [kind |-> "OverlayFsStorage", rootPath |-> Join(<<HYPER_ROOT, "overlay">>)]

RawBlockFactory ==
    [kind |-> "RawBlockStorage", rootPath |-> Join(<<HYPER_ROOT, "rawblock">>)]

StorageDrivers == ("overlay" :> OverlayFsFactory) @@ ("rawblock" :> RawBlockFactory)

UnsupportedDriver(name) == "hyperd can not support docker's backing storage: " \o name

\* What StorageFactory returns for a driver name, and how many factories it invokes.
StorageFactoryResult(name) ==
    IF name \in DOMAIN StorageDrivers
    THEN [backend |-> StorageDrivers[name], err |-> "", calls |-> 1]
    ELSE [backend |-> NoBackend, err |-> UnsupportedDriver(name), calls |-> 0]

StorageFactory ==
    /\ ~selected
    /\ LET r == StorageFactoryResult(driver)
       IN  /\ backend' = r.backend
           /\ factoryErr' = r.err
           /\ ctorCalls' = ctorCalls + r.calls
    /\ selected' = TRUE
    /\ UNCHANGED <<driver, mounts, volumesDir, storage, volumes, pc, op, ret, trip>>

IsOverlay == backend.kind = "OverlayFsStorage"

IsRawBlock == backend.kind = "RawBlockStorage"

----------------------------------------------------------------------------
(* Calls and returns *)

\* The run of calls after a method has returned r.  A successful
\* PrepareContainer of the overlay backend starts a run (fresh: not read-only,
\* and on a mount point with no mount); an InjectFile for the same container
\* continues it, and so does a CleanupContainer of the prepared mount point
\* after the InjectFile; a CleanupContainer of the same mount point right
\* after the PrepareContainer continues it, and so does one more; anything
\* else ends it.
NextTrip(o, r) ==
    LET p == Join(<<o.dir, o.id, "rootfs">>)
    IN  IF backend.kind # "OverlayFsStorage" THEN NoTrip
        ELSE IF o.name = "PrepareContainer" /\ r.err = ""
        THEN [stage |-> "prepared", id |-> o.id, path |-> p,
              fresh |-> (~o.ro /\ o.m0 = 0), ok |-> TRUE]
        ELSE IF o.name = "InjectFile" /\ trip.stage \in {"prepared", "injected"}
                /\ trip.id = o.id
        THEN [trip EXCEPT !.stage = "injected"]
        ELSE IF o.name = "CleanupContainer" /\ trip.stage = "injected" /\ trip.path = p
        THEN [trip EXCEPT !.stage = "released", !.ok = (r.err = "")]
        ELSE IF o.name = "CleanupContainer" /\ trip.stage = "prepared" /\ trip.path = p
                /\ trip.fresh
        THEN [trip EXCEPT !.stage = "cleaned", !.ok = (r.err = "")]
        ELSE IF o.name = "CleanupContainer" /\ trip.stage = "cleaned" /\ trip.path = p
        THEN [trip EXCEPT !.stage = "again"]
        ELSE NoTrip

\* Goroutine t calls method o and is now inside helper h.
Call(t, o, h) ==
    /\ selected
    /\ pc[t] = "idle"
    /\ pc' = [pc EXCEPT ![t] = h]
    /\ op' = [op EXCEPT ![t] = o]
    /\ ret' = [ret EXCEPT ![t] = BlankRet]
    /\ UNCHANGED trip

\* The method that goroutine t is in returns r.
Return(t, r) ==
    /\ pc' = [pc EXCEPT ![t] = "idle"]
    /\ ret' = [ret EXCEPT ![t] = [r EXCEPT !.done = TRUE]]
    /\ trip' = IF t = Main THEN NextTrip(op[t], r) ELSE trip
    /\ UNCHANGED op

\* Goroutine t calls method o, which calls no helper and returns r.
CallReturn(t, o, r) ==
    /\ selected
    /\ pc[t] = "idle"
    /\ pc' = pc
    /\ op' = [op EXCEPT ![t] = o]
    /\ ret' = [ret EXCEPT ![t] = [r EXCEPT !.done = TRUE]]
    /\ trip' = IF t = Main THEN NextTrip(o, r) ELSE trip

\* The method goes on to helper h, with locals r.
Goto(t, h, r) ==
    /\ pc' = [pc EXCEPT ![t] = h]
    /\ ret' = [ret EXCEPT ![t] = r]
    /\ UNCHANGED <<op, trip>>

Failed(r, e) == IF e = "" THEN r.failed ELSE r.failed \cup {e}

----------------------------------------------------------------------------
(* OverlayFsStorage *)

\* An Init that clears the root path of the backend.
OverlayInitClearsRoot(t) ==
    /\ IsOverlay
    /\ CallReturn(t, [NoOp EXCEPT !.name = "Init"], BlankRet)
    /\ backend' = [backend EXCEPT !.rootPath = ""]
    /\ UNCHANGED <<driver, selected, factoryErr, ctorCalls, mounts,
                   volumesDir, storage, volumes>>

OverlayInit(t) ==
    /\ IsOverlay
    /\ CallReturn(t, [NoOp EXCEPT !.name = "Init"], BlankRet)
    /\ UNCHANGED <<driver, selected, backend, factoryErr, ctorCalls, mounts,
                   volumesDir, storage, volumes>>

OverlayCleanUp(t) ==
    /\ IsOverlay
    /\ CallReturn(t, [NoOp EXCEPT !.name = "CleanUp"], BlankRet)
    /\ UNCHANGED <<driver, selected, backend, factoryErr, ctorCalls, mounts,
                   volumesDir, storage, volumes>>

\* The descriptor PrepareContainer builds.
OverlayDescriptor(mountId, readonly) ==
    LET containerPath == "/" \o mountId
    IN  [Name |-> containerPath, Source |-> containerPath, Fstype |-> "dir",
         Format |-> "vfs", ReadOnly |-> readonly]

\* What PrepareContainer returns once the mount helper has returned err.
OverlayPrepareResult(mountId, readonly, err) ==
    IF err # ""
    THEN [BlankRet EXCEPT !.err = err]
    ELSE [BlankRet EXCEPT !.vol = <<OverlayDescriptor(mountId, readonly)>>]

\* A PrepareContainer that takes a lock of the backend around the mount
\* helper: it waits while another goroutine is inside a helper.
OverlayPrepareContainerSerialized(t, mountId, sharedDir, readonly) ==
    /\ IsOverlay
    /\ \A u \in Threads \ {t} : pc[u] = "idle"
    /\ Call(t, [NoOp EXCEPT !.name = "PrepareContainer", !.id = mountId,
                            !.dir = sharedDir, !.ro = readonly,
                            !.m0 = mounts[OverlayMountPoint(sharedDir, mountId)]],
            "MountContainerToSharedDir")
    /\ UNCHANGED <<driver, selected, backend, factoryErr, ctorCalls, mounts,
                   volumesDir, storage, volumes>>

OverlayPrepareContainer(t, mountId, sharedDir, readonly) ==
    /\ IsOverlay
    /\ Call(t, [NoOp EXCEPT !.name = "PrepareContainer", !.id = mountId,
                            !.dir = sharedDir, !.ro = readonly,
                            !.m0 = mounts[OverlayMountPoint(sharedDir, mountId)]],
            "MountContainerToSharedDir")
    /\ UNCHANGED <<driver, selected, backend, factoryErr, ctorCalls, mounts,
                   volumesDir, storage, volumes>>

OverlayPrepareContainerMounted(t) ==
    /\ pc[t] = "MountContainerToSharedDir"
    /\ op[t].name = "PrepareContainer"
    /\ \E h \in MountContainerToSharedDir(mounts, op[t].id, op[t].dir) :
          /\ mounts' = h.mounts
          /\ Return(t, [OverlayPrepareResult(op[t].id, op[t].ro, h.err)
                            EXCEPT !.failed = Failed(ret[t], h.err)])
    /\ UNCHANGED <<driver, selected, backend, factoryErr, ctorCalls,
                   volumesDir, storage, volumes>>

\* The path CleanupContainer unmounts.
OverlayCleanupPath(id, sharedDir) == Join(<<sharedDir, id, "rootfs">>)

\* A CleanupContainer that suppresses the error of syscall.Unmount.
OverlayCleanupResultSuppressed(err) == BlankRet

\* What CleanupContainer returns once syscall.Unmount has returned err.
OverlayCleanupResult(err) == [BlankRet EXCEPT !.err = err]

OverlayCleanupContainer(t, id, sharedDir) ==
    /\ IsOverlay
    /\ Call(t, [NoOp EXCEPT !.name = "CleanupContainer", !.id = id, !.dir = sharedDir,
                            !.m0 = mounts[OverlayMountPoint(sharedDir, id)]],
            "Unmount")
    /\ UNCHANGED <<driver, selected, backend, factoryErr, ctorCalls, mounts,
                   volumesDir, storage, volumes>>

OverlayCleanupContainerUnmounted(t) ==
    /\ pc[t] = "Unmount"
    /\ op[t].name = "CleanupContainer"
    /\ \E h \in Unmount(mounts, OverlayCleanupPath(op[t].id, op[t].dir)) :
          /\ mounts' = h.mounts
          /\ Return(t, [OverlayCleanupResult(h.err)
                            EXCEPT !.failed = Failed(ret[t], h.err)])
    /\ UNCHANGED <<driver, selected, backend, factoryErr, ctorCalls,
                   volumesDir, storage, volumes>>

\* Whether InjectFile has deferred the unmount once the mount helper has returned err.
OverlayInjectDefers(err) == err = ""

\* A deferred unmount of the guest-facing directory instead of baseDir.
OverlayInjectUnmountShared(mountId, baseDir) == Join(<<"/vm/share", mountId, "rootfs">>)

\* The path the deferred call of InjectFile unmounts.
OverlayInjectUnmountPath(mountId, baseDir) == Join(<<baseDir, mountId, "rootfs">>)

\* What InjectFile returns: the copy helper's error; what the deferred
\* syscall.Unmount returned is dropped.
OverlayInjectResult(copyErr, unmountErr) == copyErr

OverlayInjectFile(t, mountId, baseDir) ==
    /\ IsOverlay
    /\ Call(t, [NoOp EXCEPT !.name = "InjectFile", !.id = mountId, !.dir = baseDir,
                            !.m0 = mounts[OverlayMountPoint(baseDir, mountId)]],
            "MountContainerToSharedDir")
    /\ UNCHANGED <<driver, selected, backend, factoryErr, ctorCalls, mounts,
                   volumesDir, storage, volumes>>

OverlayInjectFileMounted(t) ==
    /\ pc[t] = "MountContainerToSharedDir"
    /\ op[t].name = "InjectFile"
    /\ \E h \in MountContainerToSharedDir(mounts, op[t].id, op[t].dir) :
          /\ mounts' = h.mounts
          /\ LET r == [ret[t] EXCEPT !.err = h.err, !.failed = Failed(ret[t], h.err)]
             IN  IF OverlayInjectDefers(h.err)
                 THEN Goto(t, "FsInjectFile", r)
                 ELSE Return(t, r)
    /\ UNCHANGED <<driver, selected, backend, factoryErr, ctorCalls,
                   volumesDir, storage, volumes>>

OverlayInjectFileCopied(t) ==
    /\ pc[t] = "FsInjectFile"
    /\ IsOverlay
    /\ \E e \in FsInjectFile :
          Goto(t, "Unmount", [ret[t] EXCEPT !.err = e, !.failed = Failed(ret[t], e)])
    /\ UNCHANGED <<driver, selected, backend, factoryErr, ctorCalls, mounts,
                   volumesDir, storage, volumes>>

OverlayInjectFileUnmounted(t) ==
    /\ pc[t] = "Unmount"
    /\ op[t].name = "InjectFile"
    /\ \E h \in Unmount(mounts, OverlayInjectUnmountPath(op[t].id, op[t].dir)) :
          /\ mounts' = h.mounts
          /\ Return(t, [ret[t] EXCEPT !.err = OverlayInjectResult(ret[t].err, h.err),
                                      !.failed = Failed(ret[t], h.err)])
    /\ UNCHANGED <<driver, selected, backend, factoryErr, ctorCalls,
                   volumesDir, storage, volumes>>

\* The spec as CreateVolume leaves it once storage.CreateVFSVolume has
\* returned (volName, err).
OverlayCreateVolumeSpec(spec, volName, err) ==
    IF err # "" THEN spec
    ELSE [spec EXCEPT !.Source = volName, !.Format = "vfs", !.Fstype = "dir"]

OverlayCreateVolume(t, podId, spec) ==
    /\ IsOverlay
    /\ Call(t, [NoOp EXCEPT !.name = "CreateVolume", !.podId = podId, !.spec = spec],
            "CreateVFSVolume")
    /\ UNCHANGED <<driver, selected, backend, factoryErr, ctorCalls, mounts,
                   volumesDir, storage, volumes>>

OverlayCreateVolumeDone(t) ==
    /\ pc[t] = "CreateVFSVolume"
    /\ \E h \in CreateVFSVolume(op[t].podId, op[t].spec.Name) :
          LET spec == OverlayCreateVolumeSpec(op[t].spec, h.volName, h.err)
          IN  /\ storage' = IF h.err = "" THEN storage \cup {h.volName} ELSE storage
              /\ volumes' = IF h.err = ""
                            THEN volumes \cup {[podId |-> op[t].podId, spec |-> spec]}
                            ELSE volumes
              /\ Return(t, [ret[t] EXCEPT !.err = h.err, !.spec = spec,
                                          !.failed = Failed(ret[t], h.err)])
    /\ UNCHANGED <<driver, selected, backend, factoryErr, ctorCalls, mounts, volumesDir>>

\* RemoveVolume does nothing and returns nil; the caller then drops the record.
OverlayRemoveVolume(t, podId, record) ==
    /\ IsOverlay
    /\ CallReturn(t, [NoOp EXCEPT !.name = "RemoveVolume", !.podId = podId,
                                  !.spec = record.spec], BlankRet)
    /\ volumes' = volumes \ {record}
    /\ UNCHANGED <<driver, selected, backend, factoryErr, ctorCalls, mounts,
                   volumesDir, storage>>

----------------------------------------------------------------------------
(* RawBlockStorage *)

\* What Init returns once os.MkdirAll has returned err.
RawBlockInitResult(err) == [BlankRet EXCEPT !.err = err]

RawBlockInit(t) ==
    /\ IsRawBlock
    /\ Call(t, [NoOp EXCEPT !.name = "Init",
                            !.dir = Join(<<RootPath(backend), "volumes">>)], "MkdirAll")
    /\ UNCHANGED <<driver, selected, backend, factoryErr, ctorCalls, mounts,
                   volumesDir, storage, volumes>>

RawBlockInitDone(t) ==
    /\ pc[t] = "MkdirAll"
    /\ \E e \in MkdirAll :
          /\ volumesDir' = (volumesDir \/ e = "")
          /\ Return(t, [RawBlockInitResult(e) EXCEPT !.failed = Failed(ret[t], e)])
    /\ UNCHANGED <<driver, selected, backend, factoryErr, ctorCalls, mounts,
                   storage, volumes>>

RawBlockCleanUp(t) ==
    /\ IsRawBlock
    /\ CallReturn(t, [NoOp EXCEPT !.name = "CleanUp"], BlankRet)
    /\ UNCHANGED <<driver, selected, backend, factoryErr, ctorCalls, mounts,
                   volumesDir, storage, volumes>>

\* A descriptor that names an image below sharedDir.
RawBlockDescriptorShared(rootPath, containerId, sharedDir, readonly) ==
    LET devFullName == Join(<<sharedDir, "blocks", containerId>>)
    IN  [Name |-> devFullName, Source |-> devFullName, Fstype |-> "xfs",
         Format |-> "raw", ReadOnly |-> readonly]

\* The descriptor PrepareContainer builds.
RawBlockDescriptor(rootPath, containerId, sharedDir, readonly) ==
    LET devFullName == Join(<<rootPath, "blocks", containerId>>)
    IN  [Name |-> devFullName, Source |-> devFullName, Fstype |-> "xfs",
         Format |-> "raw", ReadOnly |-> readonly]

RawBlockPrepareContainer(t, containerId, sharedDir, readonly) ==
    /\ IsRawBlock
    /\ CallReturn(t, [NoOp EXCEPT !.name = "PrepareContainer", !.id = containerId,
                                  !.dir = sharedDir, !.ro = readonly,
                                  !.m0 = mounts[ImageMountPoint(sharedDir, containerId)]],
                  [BlankRet EXCEPT !.vol = <<RawBlockDescriptor(RootPath(backend),
                                                 containerId, sharedDir, readonly)>>])
    /\ UNCHANGED <<driver, selected, backend, factoryErr, ctorCalls, mounts,
                   volumesDir, storage, volumes>>

RawBlockCleanupContainer(t, id, sharedDir) ==
    /\ IsRawBlock
    /\ CallReturn(t, [NoOp EXCEPT !.name = "CleanupContainer", !.id = id, !.dir = sharedDir,
                                  !.m0 = mounts[ImageMountPoint(sharedDir, id)]],
                  BlankRet)
    /\ UNCHANGED <<driver, selected, backend, factoryErr, ctorCalls, mounts,
                   volumesDir, storage, volumes>>

\* Whether InjectFile has deferred rawblock.PutImage once rawblock.GetImage has returned err.
RawBlockInjectDefers(err) == err = ""

\* What InjectFile returns: the copy helper's error; what the deferred
\* rawblock.PutImage returned is dropped.
RawBlockInjectResult(copyErr, putErr) == copyErr

RawBlockInjectFile(t, mountId, baseDir) ==
    /\ IsRawBlock
    /\ Call(t, [NoOp EXCEPT !.name = "InjectFile", !.id = mountId, !.dir = baseDir,
                            !.m0 = mounts[ImageMountPoint(baseDir, mountId)]],
            "GetImage")
    /\ UNCHANGED <<driver, selected, backend, factoryErr, ctorCalls, mounts,
                   volumesDir, storage, volumes>>

RawBlockInjectFileAttached(t) ==
    /\ pc[t] = "GetImage"
    /\ \E h \in GetImage(mounts, op[t].dir, op[t].id) :
          /\ mounts' = h.mounts
          /\ LET r == [ret[t] EXCEPT !.err = h.err, !.failed = Failed(ret[t], h.err)]
             IN  IF RawBlockInjectDefers(h.err)
                 THEN Goto(t, "FsInjectFile", r)
                 ELSE Return(t, r)
    /\ UNCHANGED <<driver, selected, backend, factoryErr, ctorCalls,
                   volumesDir, storage, volumes>>

RawBlockInjectFileCopied(t) ==
    /\ pc[t] = "FsInjectFile"
    /\ IsRawBlock
    /\ \E e \in FsInjectFile :
          Goto(t, "PutImage", [ret[t] EXCEPT !.err = e, !.failed = Failed(ret[t], e)])
    /\ UNCHANGED <<driver, selected, backend, factoryErr, ctorCalls, mounts,
                   volumesDir, storage, volumes>>

RawBlockInjectFileDetached(t) ==
    /\ pc[t] = "PutImage"
    /\ \E h \in PutImage(mounts, op[t].dir, op[t].id) :
          /\ mounts' = h.mounts
          /\ Return(t, [ret[t] EXCEPT !.err = RawBlockInjectResult(ret[t].err, h.err),
                                      !.failed = Failed(ret[t], h.err)])
    /\ UNCHANGED <<driver, selected, backend, factoryErr, ctorCalls,
                   volumesDir, storage, volumes>>

\* The path of the block image of a volume.
RawBlockVolumePath(rootPath, podId, name) ==
    Join(<<rootPath, "volumes", podId \o "-" \o name>>)

\* A CreateVolume that sets Source before it looks at the error.
RawBlockCreateVolumeSpecEarly(spec, block, err) ==
    IF err # "" THEN [spec EXCEPT !.Source = block]
    ELSE [spec EXCEPT !.Source = block, !.Fstype = "xfs", !.Format = "raw"]

\* The spec as CreateVolume leaves it once rawblock.CreateBlock(block) has returned err.
RawBlockCreateVolumeSpec(spec, block, err) ==
    IF err # "" THEN spec
    ELSE [spec EXCEPT !.Source = block, !.Fstype = "xfs", !.Format = "raw"]

RawBlockCreateVolume(t, podId, spec) ==
    /\ IsRawBlock
    /\ Call(t, [NoOp EXCEPT !.name = "CreateVolume", !.podId = podId, !.spec = spec],
            "CreateBlock")
    /\ UNCHANGED <<driver, selected, backend, factoryErr, ctorCalls, mounts,
                   volumesDir, storage, volumes>>

RawBlockCreateVolumeDone(t) ==
    /\ pc[t] = "CreateBlock"
    /\ \E e \in CreateBlock :
          LET block == RawBlockVolumePath(RootPath(backend), op[t].podId, op[t].spec.Name)
              spec == RawBlockCreateVolumeSpec(op[t].spec, block, e)
          IN  /\ storage' = IF e = "" THEN storage \cup {block} ELSE storage
              /\ volumes' = IF e = ""
                            THEN volumes \cup {[podId |-> op[t].podId, spec |-> spec]}
                            ELSE volumes
              /\ Return(t, [ret[t] EXCEPT !.err = e, !.spec = spec,
                                          !.failed = Failed(ret[t], e)])
    /\ UNCHANGED <<driver, selected, backend, factoryErr, ctorCalls, mounts, volumesDir>>

\* RemoveVolume does nothing and returns nil; the caller then drops the record.
RawBlockRemoveVolume(t, podId, record) ==
    /\ IsRawBlock
    /\ CallReturn(t, [NoOp EXCEPT !.name = "RemoveVolume", !.podId = podId,
                                  !.spec = record.spec], BlankRet)
    /\ volumes' = volumes \ {record}
    /\ UNCHANGED <<driver, selected, backend, factoryErr, ctorCalls, mounts,
                   volumesDir, storage>>

----------------------------------------------------------------------------
(* The daemon *)

Init ==
    /\ driver \in Drivers
    /\ selected = FALSE
    /\ backend = NoBackend
    /\ factoryErr = ""
    /\ ctorCalls = 0
    /\ mounts = [p \in MountPoints |-> 0]
    /\ volumesDir = FALSE
    /\ storage = {}
    /\ volumes = {}
    /\ pc = [t \in Threads |-> "idle"]
    /\ op = [t \in Threads |-> NoOp]
    /\ ret = [t \in Threads |-> BlankRet]
    /\ trip = NoTrip

\* The specs a caller passes to CreateVolume for pod podId: a new one, or one
\* that an earlier CreateVolume for the pod has filled in.
SpecsFor(podId, names) ==
    {FreshSpec(n) : n \in names}
        \cup {v.spec : v \in {w \in volumes : w.podId = podId /\ w.spec.Name \in names}}

\* The methods of the backend that call helpers, once a helper returns.
HelperReturns(t) ==
    \/ OverlayPrepareContainerMounted(t)
    \/ OverlayCleanupContainerUnmounted(t)
    \/ OverlayInjectFileMounted(t)
    \/ OverlayInjectFileCopied(t)
    \/ OverlayInjectFileUnmounted(t)
    \/ OverlayCreateVolumeDone(t)
    \/ RawBlockInitDone(t)
    \/ RawBlockInjectFileAttached(t)
    \/ RawBlockInjectFileCopied(t)
    \/ RawBlockInjectFileDetached(t)
    \/ RawBlockCreateVolumeDone(t)

\* Calls of the methods that work on a container.
ContainerCalls(t, ids) ==
    \/ \E i \in ids, d \in Dirs, ro \in BOOLEAN : OverlayPrepareContainer(t, i, d, ro)
    \/ \E i \in ids, d \in Dirs : OverlayCleanupContainer(t, i, d)
    \/ \E i \in ids, d \in Dirs, ro \in BOOLEAN : RawBlockPrepareContainer(t, i, d, ro)
    \/ \E i \in ids, d \in Dirs : RawBlockCleanupContainer(t, i, d)

InjectCalls(t, ids) ==
    \/ \E i \in ids, d \in Dirs : OverlayInjectFile(t, i, d)
    \/ \E i \in ids, d \in Dirs : RawBlockInjectFile(t, i, d)

LifecycleCalls(t) ==
    \/ OverlayInit(t)
    \/ OverlayCleanUp(t)
    \/ RawBlockInit(t)
    \/ RawBlockCleanUp(t)

VolumeCalls(t, pods, names) ==
    \/ \E p \in pods : \E s \in SpecsFor(p, names) : OverlayCreateVolume(t, p, s)
    \/ \E v \in volumes : OverlayRemoveVolume(t, v.podId, v)
    \/ \E p \in pods : \E s \in SpecsFor(p, names) : RawBlockCreateVolume(t, p, s)
    \/ \E v \in volumes : RawBlockRemoveVolume(t, v.podId, v)

\* One goroutine calls every method of the backend, on two containers and one volume.
Next ==
    \/ StorageFactory
    \/ LifecycleCalls(Main)
    \/ ContainerCalls(Main, Ids)
    \/ InjectCalls(Main, Ids)
    \/ VolumeCalls(Main, {"p"}, {"v"})
    \/ HelperReturns(Main)

Spec == Init /\ [][Next]_vars

\* One goroutine creates and removes the volumes of two pods.
NextVol ==
    \/ StorageFactory
    \/ LifecycleCalls(Main)
    \/ VolumeCalls(Main, PodIds, VolNames)
    \/ OverlayCreateVolumeDone(Main)
    \/ RawBlockInitDone(Main)
    \/ RawBlockCreateVolumeDone(Main)

SpecVol == Init /\ [][NextVol]_vars

\* The container each goroutine of the concurrent daemon works on: the caller
\* serialises the calls for one container.
ContainerOf(t) == IF t = "t1" THEN "c1" ELSE "c2"

\* Two goroutines prepare and clean up one container each.
NextConc ==
    \/ StorageFactory
    \/ \E t \in Threads : ContainerCalls(t, {ContainerOf(t)})
    \/ \E t \in Threads : OverlayPrepareContainerMounted(t)
    \/ \E t \in Threads : OverlayCleanupContainerUnmounted(t)

SpecConc == Init /\ [][NextConc]_vars

----------------------------------------------------------------------------
(* Properties *)

\* The mount point of the container and directory of the call goroutine t made last.
CallPath(t) == Join(<<op[t].dir, op[t].id, "rootfs">>)

Returned(t, name) == ret[t].done /\ op[t].name = name

\* C1: once InjectFile has returned, with success or with an error, the mount
\* point baseDir/mountId holds no mount that the call created: it holds no
\* more mounts than when the call began.  Stated as the claim states it, for
\* both backends and every outcome of the helpers.
C1_InjectLeavesNoMount ==
    \A t \in Threads :
        Returned(t, "InjectFile") => mounts[CallPath(t)] <= op[t].m0

\* C2: StorageFactory called with a registered driver name ("overlay" or
\* "rawblock") returns a backend and no error, and the backend's Type() is the
\* driver name; called with any other name it returns no backend and the
\* unsupported-driver error that carries the name, and invokes no factory.
C2_FactorySelects ==
    selected =>
        IF driver \in {"overlay", "rawblock"}
        THEN backend # NoBackend /\ factoryErr = "" /\ Type(backend) = driver
        ELSE /\ backend = NoBackend
             /\ factoryErr = "hyperd can not support docker's backing storage: " \o driver
             /\ ctorCalls = 0

C2_Witness == selected /\ driver = "rawblock" /\ Type(backend) = "rawblock"

\* C3 as the claim states it: for the overlay backend, after a successful
\* PrepareContainer(id, dir, false) on a mount point with no mount, a
\* CleanupContainer(id, dir) leaves no mount at dir/id/rootfs, and one more
\* CleanupContainer(id, dir) returns an error; a CleanupContainer that finds no
\* mount at dir/id/rootfs returns an error.
C3_RoundTripAsClaimed ==
    /\ trip.stage = "cleaned" /\ Returned(Main, "CleanupContainer")
           => mounts[trip.path] = 0
    /\ trip.stage = "again" /\ Returned(Main, "CleanupContainer")
           => ret[Main].err # ""
    /\ IsOverlay /\ Returned(Main, "CleanupContainer") /\ op[Main].m0 = 0
           => ret[Main].err # ""

\* C3, amended: for the overlay backend, after a successful
\* PrepareContainer(id, dir, false) on a mount point with no mount, a
\* CleanupContainer(id, dir) that succeeds leaves no mount at dir/id/rootfs,
\* and one more CleanupContainer(id, dir) then returns an error; a
\* CleanupContainer that finds no mount at dir/id/rootfs returns an error.
C3_RoundTrip ==
    /\ trip.stage = "cleaned" /\ trip.ok /\ Returned(Main, "CleanupContainer")
           => mounts[trip.path] = 0
    /\ trip.stage = "again" /\ trip.ok /\ Returned(Main, "CleanupContainer")
           => ret[Main].err # ""
    /\ IsOverlay /\ Returned(Main, "CleanupContainer") /\ op[Main].m0 = 0
           => ret[Main].err # ""

C3_Witness ==
    /\ trip.stage = "again"
    /\ trip.ok
    /\ Returned(Main, "CleanupContainer")
    /\ ret[Main].err = "EINVAL"

\* C4: no error of a helper is swallowed: a method during which a helper
\* failed returns an error, and the error is one that a helper of the call
\* returned.  Stated as the claim states it.
C4_NoErrorSwallowed ==
    \A t \in Threads :
        ret[t].done /\ ret[t].failed # {} => ret[t].err \in ret[t].failed

\* C5: the volumes that successful CreateVolume calls made for distinct
\* (podId, Name) pairs, and that are not removed, have distinct Sources.
\* Stated as the claim states it, for both backends.
C5_SourcesDistinct ==
    \A v, w \in volumes :
        <<v.podId, v.spec.Name>> # <<w.podId, w.spec.Name>>
            => v.spec.Source # w.spec.Source

\* C6: a successful CreateVolume(podId, spec) leaves spec.Name as it was and
\* sets Source, Format and Fstype from podId and spec.Name alone: the overlay
\* backend to the directory the volume-directory helper returned, "vfs" and
\* "dir", the raw block backend to <root>/volumes/<podId>-<Name>, "raw" and
\* "xfs"; a failed CreateVolume returns the helper's error and leaves every
\* field of spec as it was.
C6_CreateVolumeSetsSpec ==
    \A t \in Threads :
        Returned(t, "CreateVolume") =>
            LET in == op[t].spec
                out == ret[t].spec
            IN  IF ret[t].err # ""
                THEN out = in /\ ret[t].err \in {CreateVFSError, CreateBlockError}
                ELSE /\ out.Name = in.Name
                     /\ IsOverlay =>
                          /\ \E h \in CreateVFSVolume(op[t].podId, in.Name) :
                                h.err = "" /\ out.Source = h.volName
                          /\ out.Format = "vfs"
                          /\ out.Fstype = "dir"
                     /\ IsRawBlock =>
                          /\ out.Source = "/var/lib/hyper/rawblock/volumes/"
                                              \o op[t].podId \o "-" \o in.Name
                          /\ out.Format = "raw"
                          /\ out.Fstype = "xfs"

C6_Witness ==
    /\ IsRawBlock
    /\ Returned(Main, "CreateVolume")
    /\ ret[Main].err = ""
    /\ ret[Main].spec.Source = "/var/lib/hyper/rawblock/volumes/p-q-v"

\* C7: PrepareContainer of the raw block backend never fails and returns the
\* descriptor with Name = Source = <root>/blocks/<containerId>, Fstype "xfs",
\* Format "raw" and ReadOnly as passed, whatever sharedDir is and whatever
\* came before, and leaves the mount table, the block images, the volumes
\* directory and the backend as they were.
C7_RawBlockPrepareIsPure ==
    [][(IsRawBlock /\ pc[Main] = "idle" /\ pc'[Main] = "idle"
            /\ op'[Main].name = "PrepareContainer")
        => /\ ret'[Main].done
           /\ ret'[Main].err = ""
           /\ ret'[Main].vol =
                  <<[Name |-> "/var/lib/hyper/rawblock/blocks/" \o op'[Main].id,
                     Source |-> "/var/lib/hyper/rawblock/blocks/" \o op'[Main].id,
                     Fstype |-> "xfs", Format |-> "raw", ReadOnly |-> op'[Main].ro]>>
           /\ UNCHANGED <<mounts, storage, volumes, volumesDir, backend>>]_vars

C7_Witness ==
    /\ IsRawBlock
    /\ Returned(Main, "PrepareContainer")
    /\ op[Main].ro
    /\ op[Main].m0 > 0

\* The methods of goroutine t that are inside a helper can go on, and the
\* calls for its container can be made.
CanProceed(t) ==
    /\ pc[t] = "MountContainerToSharedDir" => ENABLED OverlayPrepareContainerMounted(t)
    /\ pc[t] = "Unmount" => ENABLED OverlayCleanupContainerUnmounted(t)
    /\ pc[t] = "idle" /\ IsOverlay =>
          \A d \in Dirs :
              /\ \A ro \in BOOLEAN :
                    ENABLED OverlayPrepareContainer(t, ContainerOf(t), d, ro)
              /\ ENABLED OverlayCleanupContainer(t, ContainerOf(t), d)
    /\ pc[t] = "idle" /\ IsRawBlock =>
          \A d \in Dirs :
              /\ \A ro \in BOOLEAN :
                    ENABLED RawBlockPrepareContainer(t, ContainerOf(t), d, ro)
              /\ ENABLED RawBlockCleanupContainer(t, ContainerOf(t), d)

\* A step that is not of goroutine t leaves the mounts of t's container, and
\* what t has called and got back, as they were.
NotDisturbed(t) ==
    (pc'[t] = pc[t] /\ op'[t] = op[t] /\ ret'[t] = ret[t])
        => \A d \in Dirs :
              mounts'[Join(<<d, ContainerOf(t), "rootfs">>)]
                  = mounts[Join(<<d, ContainerOf(t), "rootfs">>)]

\* C8: PrepareContainer and CleanupContainer calls for distinct containers
\* never block on each other: whatever the other goroutine is doing, also
\* while it is inside the mount helper, a goroutine can make its call and its
\* call can go on to its return, and the other goroutine's steps change
\* nothing that the outcome of the call depends on.
C8_NoBlocking ==
    /\ [](\A t \in Threads : CanProceed(t))
    /\ [][\A t \in Threads : NotDisturbed(t)]_vars

C8_Witness ==
    /\ pc["t2"] = "MountContainerToSharedDir"
    /\ op["t2"].name = "PrepareContainer"
    /\ pc["t1"] = "MountContainerToSharedDir"
    /\ op["t1"].name = "PrepareContainer"

\* C9: RootPath() of the backend a factory made is not empty and is
\* <storage root>/overlay or <storage root>/rawblock after any calls, failed
\* or not: no method writes the backend.
C9_RootPathStable ==
    selected /\ backend # NoBackend =>
        /\ RootPath(backend) # ""
        /\ IsOverlay => backend = [kind |-> "OverlayFsStorage",
                                   rootPath |-> "/var/lib/hyper/overlay"]
        /\ IsRawBlock => backend = [kind |-> "RawBlockStorage",
                                    rootPath |-> "/var/lib/hyper/rawblock"]

C9_Witness ==
    /\ Returned(Main, "InjectFile")
    /\ ret[Main].err # ""
    /\ volumes # {}
    /\ RootPath(backend) = "/var/lib/hyper/rawblock"

====
